---- MODULE Spec2Model ----
(***************************************************************************)
(* Composition engine of optics-rs: ComposedFallibleIso, ComposedLens and  *)
(* the GetterImpl wrapper.  The primitive optics and the error-mapping      *)
(* functions are supplied by the caller; they are pure, so each is modelled *)
(* as a table `ext` of the answers it has given so far: a call with new     *)
(* arguments may answer anything of its type, a repeated call answers the   *)
(* same.  Every operation yields the set of its possible outcomes.          *)
(***************************************************************************)
EXTENDS Integers, Sequences, FiniteSets, TLC

\* optic: the optic(s) built by the constructors
\* ext:   the answers of the external functions consulted by the last two
\*        operations (what the properties relate; older answers are dropped)
\* last, prev: the last two operations invoked, with arguments and results
\* built: the constructor that built optic, and the kind of its second operand
VARIABLES optic, built, ext, last, prev

vars == <<optic, built, ext, last, prev>>

\* Values of S, I, J and A are 0..MaxVal, stage and target errors 0..MaxErr.
MaxVal == 2
MaxErr == 1

Val == 0..MaxVal
ErrVal == 0..MaxErr

\* Result<T, E>
Ok(v) == [ok |-> TRUE, val |-> v]
Err(e) == [ok |-> FALSE, val |-> e]
Results == {Ok(v) : v \in Val} \cup {Err(e) : e \in ErrVal}
Totals == {Ok(v) : v \in Val}

\* () of a setter, and the value no run of `infallible` can return
Unit == Ok(0)
Unreachable == Err(0 - 1)

\* A primitive optic supplied by the caller, numbered id; total = its read
\* never fails (Getter, Lens, Iso).
Prim(id, total) == [kind |-> "prim", name |-> id, total |-> total]

\* One external call: answered from the table, or freshly from `range`.
Key(name, method, x, y) == <<name, method, x, y>>

Extern(m, key, range) ==
  IF key \in DOMAIN m
    THEN {[ext |-> m, out |-> m[key], log |-> <<key>>]}
    ELSE {[ext |-> m @@ (key :> r), out |-> r, log |-> <<key>>] : r \in range}

\* core::convert::identity, crate::infallible, or a caller-supplied fn(E) -> GE
ErrorFn(f, m, e) ==
  IF f = "identity"
    THEN {[ext |-> m, out |-> Ok(e), log |-> <<Key(0, f, e, 0)>>]}
    ELSE IF f = "infallible"
      THEN {[ext |-> m, out |-> Unreachable, log |-> <<Key(0, f, e, 0)>>]}
      ELSE Extern(m, Key(0, f, e, 0), {Ok(t) : t \in ErrVal})

\* Result::map_err applied to the outcome r of a read
map_err(r, f) ==
  IF r.out.ok
    THEN {r}
    ELSE {[ext |-> c.ext,
           out |-> IF c.out.ok THEN Err(c.out.val) ELSE c.out,
           log |-> r.log \o c.log] : c \in ErrorFn(f, r.ext, r.out.val)}

RECURSIVE try_get(_, _, _)
RECURSIVE get(_, _, _)
RECURSIVE set(_, _, _, _)
RECURSIVE try_reverse_get(_, _, _)

\* ComposedFallibleIso::new
ComposedFallibleIso(optic1, optic2, gfn1, gfn2, rfn1, rfn2) ==
  [kind |-> "ComposedFallibleIso", optic1 |-> optic1, optic2 |-> optic2,
   getter_error_fn_1 |-> gfn1, getter_error_fn_2 |-> gfn2,
   reverse_error_fn_1 |-> rfn1, reverse_error_fn_2 |-> rfn2]

\* Mutant: stage 2's error is mapped through getter_error_fn_1
ComposedFallibleIso_try_get_fn1(o, m, source) ==
  UNION { UNION {
      IF i.out.ok
        THEN UNION { { [ext |-> a.ext, out |-> a.out, log |-> i.log \o a.log]
                       : a \in map_err(r2, o.getter_error_fn_1) }
                     : r2 \in try_get(o.optic2, i.ext, i.out.val) }
        ELSE {i}
      : i \in map_err(r1, o.getter_error_fn_1) }
    : r1 \in try_get(o.optic1, m, source) }

\* Mutant: stage 2 reads the source instead of the intermediate
ComposedFallibleIso_try_get_source(o, m, source) ==
  UNION { UNION {
      IF i.out.ok
        THEN UNION { { [ext |-> a.ext, out |-> a.out, log |-> i.log \o a.log]
                       : a \in map_err(r2, o.getter_error_fn_2) }
                     : r2 \in try_get(o.optic2, i.ext, source) }
        ELSE {i}
      : i \in map_err(r1, o.getter_error_fn_1) }
    : r1 \in try_get(o.optic1, m, source) }

\* Mutant: stage 1's error is returned without its mapping
ComposedFallibleIso_try_get_unmapped(o, m, source) ==
  UNION {
      IF r1.out.ok
        THEN UNION { { [ext |-> a.ext, out |-> a.out, log |-> r1.log \o a.log]
                       : a \in map_err(r2, o.getter_error_fn_2) }
                     : r2 \in try_get(o.optic2, r1.ext, r1.out.val) }
        ELSE {r1}
    : r1 \in try_get(o.optic1, m, source) }

ComposedFallibleIso_try_get(o, m, source) ==
  UNION { UNION {
      IF i.out.ok
        THEN UNION { { [ext |-> a.ext, out |-> a.out, log |-> i.log \o a.log]
                       : a \in map_err(r2, o.getter_error_fn_2) }
                     : r2 \in try_get(o.optic2, i.ext, i.out.val) }
        ELSE {i}
      : i \in map_err(r1, o.getter_error_fn_1) }
    : r1 \in try_get(o.optic1, m, source) }

\* Mutant: the stages are reversed left to right, stage 1 first
ComposedFallibleIso_try_reverse_get_ltr(o, m, value) ==
  UNION { UNION {
      IF i.out.ok
        THEN UNION { { [ext |-> s.ext, out |-> s.out, log |-> i.log \o s.log]
                       : s \in map_err(r2, o.reverse_error_fn_2) }
                     : r2 \in try_reverse_get(o.optic2, i.ext, i.out.val) }
        ELSE {i}
      : i \in map_err(r1, o.reverse_error_fn_1) }
    : r1 \in try_reverse_get(o.optic1, m, value) }

ComposedFallibleIso_try_reverse_get(o, m, value) ==
  UNION { UNION {
      IF i.out.ok
        THEN UNION { { [ext |-> s.ext, out |-> s.out, log |-> i.log \o s.log]
                       : s \in map_err(r1, o.reverse_error_fn_1) }
                     : r1 \in try_reverse_get(o.optic1, i.ext, i.out.val) }
        ELSE {i}
      : i \in map_err(r2, o.reverse_error_fn_2) }
    : r2 \in try_reverse_get(o.optic2, m, value) }

\* Mutant: the value is written through stage 1 even when its read failed
ComposedFallibleIso_set_unchecked(o, m, source, value) ==
  UNION { UNION {
      IF i.out.ok
        THEN UNION { { [ext |-> w.ext, out |-> w.out,
                        log |-> i.log \o i2.log \o w.log]
                       : w \in set(o.optic1, i2.ext, source, i2.out) }
                     : i2 \in set(o.optic2, i.ext, i.out.val, value) }
        ELSE { [ext |-> w.ext, out |-> w.out, log |-> i.log \o w.log]
               : w \in set(o.optic1, i.ext, source, value) }
      : i \in map_err(r1, o.getter_error_fn_1) }
    : r1 \in try_get(o.optic1, m, source) }

\* Mutant: the value, not the updated intermediate, is written through stage 1
ComposedFallibleIso_set_direct(o, m, source, value) ==
  UNION { UNION {
      IF i.out.ok
        THEN UNION { { [ext |-> w.ext, out |-> w.out,
                        log |-> i.log \o i2.log \o w.log]
                       : w \in set(o.optic1, i2.ext, source, value) }
                     : i2 \in set(o.optic2, i.ext, i.out.val, value) }
        ELSE {[ext |-> i.ext, out |-> source, log |-> i.log]}
      : i \in map_err(r1, o.getter_error_fn_1) }
    : r1 \in try_get(o.optic1, m, source) }

\* out is the value of *source after the call
ComposedFallibleIso_set(o, m, source, value) ==
  UNION { UNION {
      IF i.out.ok
        THEN UNION { { [ext |-> w.ext, out |-> w.out,
                        log |-> i.log \o i2.log \o w.log]
                       : w \in set(o.optic1, i2.ext, source, i2.out) }
                     : i2 \in set(o.optic2, i.ext, i.out.val, value) }
        ELSE {[ext |-> i.ext, out |-> source, log |-> i.log]}
      : i \in map_err(r1, o.getter_error_fn_1) }
    : r1 \in try_get(o.optic1, m, source) }

\* ComposedLens::new
ComposedLens(optic1, optic2) ==
  [kind |-> "ComposedLens", optic1 |-> optic1, optic2 |-> optic2]

ComposedLens_try_get(o, m, source) ==
  UNION {
      IF i.out.ok
        THEN { [ext |-> a.ext, out |-> a.out, log |-> i.log \o a.log]
               : a \in try_get(o.optic2, i.ext, i.out.val) }
        ELSE {i}
    : i \in try_get(o.optic1, m, source) }

\* Mutant: the updated intermediate is not written back
ComposedLens_set_nowriteback(o, m, source, value) ==
  UNION { { [ext |-> i2.ext, out |-> source, log |-> i.log \o i2.log]
            : i2 \in set(o.optic2, i.ext, i.out, value) }
    : i \in get(o.optic1, m, source) }

\* Mutant: the value, not the updated intermediate, is written through stage 1
ComposedLens_set_direct(o, m, source, value) ==
  UNION { UNION { { [ext |-> w.ext, out |-> w.out,
                     log |-> i.log \o i2.log \o w.log]
                    : w \in set(o.optic1, i2.ext, source, value) }
                  : i2 \in set(o.optic2, i.ext, i.out, value) }
    : i \in get(o.optic1, m, source) }

ComposedLens_set(o, m, source, value) ==
  UNION { UNION { { [ext |-> w.ext, out |-> w.out,
                     log |-> i.log \o i2.log \o w.log]
                    : w \in set(o.optic1, i2.ext, source, i2.out) }
                  : i2 \in set(o.optic2, i.ext, i.out, value) }
    : i \in get(o.optic1, m, source) }

\* The wrappers: one per kind, around the concrete optic
GetterImpl(g) == [kind |-> "GetterImpl", inner |-> g]
PartialGetterImpl(g) == [kind |-> "PartialGetterImpl", inner |-> g]
LensImpl(l) == [kind |-> "LensImpl", inner |-> l]
PrismImpl(p) == [kind |-> "PrismImpl", inner |-> p]
IsoImpl(i) == [kind |-> "IsoImpl", inner |-> i]
FallibleIsoImpl(f) == [kind |-> "FallibleIsoImpl", inner |-> f]

GetterImpl_try_get(o, m, source) ==
  { [r EXCEPT !.out = Ok(r.out)] : r \in get(o.inner, m, source) }

\* optics::getter::composed: get(s) = g2.get(g1.get(s))
ComposedGetter(g1, g2) ==
  [kind |-> "ComposedGetter", optic1 |-> g1, optic2 |-> g2]

ComposedGetter_get(o, m, source) ==
  UNION { { [ext |-> a.ext, out |-> a.out, log |-> i.log \o a.log]
            : a \in get(o.optic2, i.ext, i.out) }
    : i \in get(o.optic1, m, source) }

composed_getter(g1, g2) == GetterImpl(ComposedGetter(g1, g2))

\* optics::partial_getter::composed: stage 1, then stage 2, each error mapped
ComposedPartialGetter(pg1, pg2, gfn1, gfn2) ==
  [kind |-> "ComposedPartialGetter", optic1 |-> pg1, optic2 |-> pg2,
   getter_error_fn_1 |-> gfn1, getter_error_fn_2 |-> gfn2]

ComposedPartialGetter_try_get(o, m, source) ==
  UNION { UNION {
      IF i.out.ok
        THEN UNION { { [ext |-> a.ext, out |-> a.out, log |-> i.log \o a.log]
                       : a \in map_err(r2, o.getter_error_fn_2) }
                     : r2 \in try_get(o.optic2, i.ext, i.out.val) }
        ELSE {i}
      : i \in map_err(r1, o.getter_error_fn_1) }
    : r1 \in try_get(o.optic1, m, source) }

composed_partial_getter(pg1, pg2, gfn1, gfn2) ==
  PartialGetterImpl(ComposedPartialGetter(pg1, pg2, gfn1, gfn2))

GetterImpl_compose_with_getter(self, other) ==
  composed_getter(self.inner, other.inner)

\* Mutant: the composition with a Prism is declared a Getter
GetterImpl_compose_with_prism_getter(self, other) ==
  composed_getter(self, other)

\* Mutant: the two error mappings are given in the wrong order
GetterImpl_compose_with_prism_swapped(self, other) ==
  composed_partial_getter(self, other, "identity", "infallible")

GetterImpl_compose_with_prism(self, other) ==
  composed_partial_getter(self, other, "infallible", "identity")

GetterImpl_compose_with_lens(self, other) ==
  composed_getter(self, other.inner)

GetterImpl_compose_with_fallible_iso(self, other) ==
  composed_partial_getter(self, other.inner, "infallible", "identity")

GetterImpl_compose_with_iso(self, other) ==
  composed_getter(self, other.inner)

\* HasGetter::try_get
try_get(o, m, source) ==
  CASE o.kind = "prim" ->
         Extern(m, Key(o.name, "try_get", source, 0),
                IF o.total THEN Totals ELSE Results)
    [] o.kind = "ComposedFallibleIso" -> ComposedFallibleIso_try_get(o, m, source)
    [] o.kind = "ComposedLens" -> ComposedLens_try_get(o, m, source)
    [] o.kind = "GetterImpl" -> GetterImpl_try_get(o, m, source)
    [] o.kind = "ComposedGetter" ->
         { [r EXCEPT !.out = Ok(r.out)] : r \in ComposedGetter_get(o, m, source) }
    [] o.kind = "ComposedPartialGetter" ->
         ComposedPartialGetter_try_get(o, m, source)
    [] OTHER -> try_get(o.inner, m, source)

\* HasTotalGetter::get: the read of an optic whose GetterError is Infallible
get(o, m, source) ==
  IF o.kind = "ComposedGetter"
    THEN ComposedGetter_get(o, m, source)
    ELSE { [r EXCEPT !.out = r.out.val] : r \in try_get(o, m, source) }

\* HasSetter::set
set(o, m, source, value) ==
  CASE o.kind = "prim" -> Extern(m, Key(o.name, "set", source, value), Val)
    [] o.kind = "ComposedFallibleIso" -> ComposedFallibleIso_set(o, m, source, value)
    [] o.kind = "ComposedLens" -> ComposedLens_set(o, m, source, value)
    [] OTHER -> set(o.inner, m, source, value)

\* HasReverseGet::try_reverse_get
try_reverse_get(o, m, value) ==
  CASE o.kind = "prim" ->
         Extern(m, Key(o.name, "try_reverse_get", value, 0), Results)
    [] o.kind = "ComposedFallibleIso" ->
         ComposedFallibleIso_try_reverse_get(o, m, value)
    [] OTHER -> try_reverse_get(o.inner, m, value)

----
None == [op |-> "none", side |-> 0, pre |-> 0, arg |-> 0,
         out |-> Unit, post |-> 0, log |-> <<>>]

Empty == [k \in {} |-> Unit]

Calls(log) == {log[n] : n \in DOMAIN log}

\* The optics keep no state between calls and ext keeps the answers of the last
\* two operations only, so a third operation reaches no state that two do not:
\* operations are taken from the states with at most one operation behind them.
Idle == prev.op = "none"

\* An operation has been invoked with outcome r
Record(op, side, pre, arg, r, post) ==
  /\ prev' = last
  /\ last' = [op |-> op, side |-> side, pre |-> pre, arg |-> arg,
              out |-> r.out, post |-> post, log |-> r.log]
  /\ ext' = [k \in DOMAIN r.ext \cap (Calls(last.log) \cup Calls(r.log)) |-> r.ext[k]]

TryGet(side, o) ==
  /\ Idle
  /\ \E source \in Val : \E r \in try_get(o, ext, source) :
       Record("try_get", side, source, 0, r, source)

TryReverseGet(side, o) ==
  /\ Idle
  /\ \E value \in Val : \E r \in try_reverse_get(o, ext, value) :
       Record("try_reverse_get", side, 0, value, r, 0)

Set(side, o) ==
  /\ Idle
  /\ \E source \in Val, value \in Val : \E r \in set(o, ext, source, value) :
       Record("set", side, source, value, [r EXCEPT !.out = Unit], r.out)

New == [op |-> "new", kind |-> ""]

----
\* A FallibleIso composed of two primitive stages
FI == ComposedFallibleIso(Prim(1, FALSE), Prim(2, FALSE),
                          "getter_error_fn_1", "getter_error_fn_2",
                          "reverse_error_fn_1", "reverse_error_fn_2")

Init ==
  /\ optic = FI
  /\ built = New
  /\ ext = Empty
  /\ last = None
  /\ prev = None

FI_try_get == TryGet(0, optic) /\ UNCHANGED <<optic, built>>
FI_try_reverse_get == TryReverseGet(0, optic) /\ UNCHANGED <<optic, built>>
FI_set == Set(0, optic) /\ UNCHANGED <<optic, built>>

Next == FI_try_get \/ FI_try_reverse_get \/ FI_set

Spec == Init /\ [][Next]_vars

----
\* A Lens composed of two primitive lenses
CL == ComposedLens(Prim(1, TRUE), Prim(2, TRUE))

InitLens ==
  /\ optic = CL
  /\ built = New
  /\ ext = Empty
  /\ last = None
  /\ prev = None

Lens_try_get == TryGet(0, optic) /\ UNCHANGED <<optic, built>>
Lens_set == Set(0, optic) /\ UNCHANGED <<optic, built>>

NextLens == Lens_try_get \/ Lens_set

SpecLens == InitLens /\ [][NextLens]_vars

----
\* Three stages composed both ways, each stage with its own error mapping
AssocLeftFI ==
  ComposedFallibleIso(
    ComposedFallibleIso(Prim(1, FALSE), Prim(2, FALSE),
                        "getter_error_fn_1", "getter_error_fn_2",
                        "reverse_error_fn_1", "reverse_error_fn_2"),
    Prim(3, FALSE),
    "identity", "getter_error_fn_3", "identity", "reverse_error_fn_3")

AssocRightFI ==
  ComposedFallibleIso(
    Prim(1, FALSE),
    ComposedFallibleIso(Prim(2, FALSE), Prim(3, FALSE),
                        "getter_error_fn_2", "getter_error_fn_3",
                        "reverse_error_fn_2", "reverse_error_fn_3"),
    "getter_error_fn_1", "identity", "reverse_error_fn_1", "identity")

AssocLeftLens ==
  ComposedLens(ComposedLens(Prim(1, TRUE), Prim(2, TRUE)), Prim(3, TRUE))

AssocRightLens ==
  ComposedLens(Prim(1, TRUE), ComposedLens(Prim(2, TRUE), Prim(3, TRUE)))

InitAssoc ==
  /\ optic \in {<<AssocLeftFI, AssocRightFI>>, <<AssocLeftLens, AssocRightLens>>}
  /\ built = New
  /\ ext = Empty
  /\ last = None
  /\ prev = None

\* Both composites are applied to the same inputs, the left one first.
Assoc_try_get_left ==
  /\ last.op = "none"
  /\ TryGet(1, optic[1])
  /\ UNCHANGED <<optic, built>>

Assoc_try_get_right ==
  /\ last.op = "try_get" /\ last.side = 1
  /\ \E r \in try_get(optic[2], ext, last.pre) :
       Record("try_get", 2, last.pre, 0, r, last.pre)
  /\ UNCHANGED <<optic, built>>

Assoc_set_left ==
  /\ last.op = "none"
  /\ Set(1, optic[1])
  /\ UNCHANGED <<optic, built>>

Assoc_set_right ==
  /\ last.op = "set" /\ last.side = 1
  /\ \E r \in set(optic[2], ext, last.pre, last.arg) :
       Record("set", 2, last.pre, last.arg, [r EXCEPT !.out = Unit], r.out)
  /\ UNCHANGED <<optic, built>>

NextAssoc ==
  \/ Assoc_try_get_left
  \/ Assoc_try_get_right
  \/ Assoc_set_left
  \/ Assoc_set_right

SpecAssoc == InitAssoc /\ [][NextAssoc]_vars

----
\* A GetterImpl around a primitive getter, composed with a second optic
InitGetter ==
  /\ optic = GetterImpl(Prim(1, TRUE))
  /\ built = New
  /\ ext = Empty
  /\ last = None
  /\ prev = None

\* compose_with_* consumes the wrapper and yields the composed one
Composed(op, kind, result) ==
  /\ optic.inner.kind = "prim"
  /\ optic' = result
  /\ built' = [op |-> op, kind |-> kind]
  /\ UNCHANGED <<ext, last, prev>>

compose_with_getter ==
  Composed("compose_with_getter", "Getter",
           GetterImpl_compose_with_getter(optic, GetterImpl(Prim(2, TRUE))))

compose_with_prism ==
  Composed("compose_with_prism", "Prism",
           GetterImpl_compose_with_prism(optic, PrismImpl(Prim(2, FALSE))))

compose_with_lens ==
  Composed("compose_with_lens", "Lens",
           GetterImpl_compose_with_lens(optic, LensImpl(Prim(2, TRUE))))

compose_with_fallible_iso ==
  Composed("compose_with_fallible_iso", "FallibleIso",
           GetterImpl_compose_with_fallible_iso(optic, FallibleIsoImpl(Prim(2, FALSE))))

compose_with_iso ==
  Composed("compose_with_iso", "Iso",
           GetterImpl_compose_with_iso(optic, IsoImpl(Prim(2, TRUE))))

\* side 1 marks a read through a composed optic
Getter_try_get ==
  /\ TryGet(IF built.op = "new" THEN 0 ELSE 1, optic)
  /\ UNCHANGED <<optic, built>>

NextGetter ==
  \/ compose_with_getter
  \/ compose_with_prism
  \/ compose_with_lens
  \/ compose_with_fallible_iso
  \/ compose_with_iso
  \/ Getter_try_get

SpecGetter == InitGetter /\ [][NextGetter]_vars

----
\* What the external functions have answered
Unanswered == Err(0 - 2)
Read(k) == IF k \in DOMAIN ext THEN ext[k] ELSE Unanswered

\* The laws of a primitive stage, on the calls it has answered.
\* Write contract: set is a no-op where the stage's own read fails.
WriteContract(id) ==
  \A k \in DOMAIN ext :
    (k[1] = id /\ k[2] = "set" /\ Key(id, "try_get", k[3], 0) \in DOMAIN ext
      /\ ~ext[Key(id, "try_get", k[3], 0)].ok) => ext[k] = k[3]

\* get-set: writing back the value just read leaves the source unchanged
GetSetLaw(id) ==
  \A k \in DOMAIN ext :
    (k[1] = id /\ k[2] = "set" /\ Key(id, "try_get", k[3], 0) \in DOMAIN ext
      /\ ext[Key(id, "try_get", k[3], 0)] = Ok(k[4])) => ext[k] = k[3]

\* set-get: a read after set returns the value set
SetGetLaw(id) ==
  \A k \in DOMAIN ext :
    (k[1] = id /\ k[2] = "set" /\ Key(id, "try_get", ext[k], 0) \in DOMAIN ext)
      => ext[Key(id, "try_get", ext[k], 0)] = Ok(k[4])

\* round trip: a read of what try_reverse_get built returns the value it was built from
RoundTripLaw(id) ==
  \A k \in DOMAIN ext :
    (k[1] = id /\ k[2] = "try_reverse_get" /\ ext[k].ok
      /\ Key(id, "try_get", ext[k].val, 0) \in DOMAIN ext)
      => ext[Key(id, "try_get", ext[k].val, 0)] = Ok(k[3])

Stage1Read == Read(Key(1, "try_get", last.pre, 0))

\* C1: when stage 1's try_get(s) fails, set(s, v) of the composed FallibleIso
\* leaves s as it was and invokes neither stage's set.
C1_SetNoOpOnStage1Failure ==
  (last.op = "set" /\ ~Stage1Read.ok)
    => /\ last.post = last.pre
       /\ \A k \in Calls(last.log) : k[2] # "set"

C1_Witness ==
  /\ last.op = "set"
  /\ Read(Key(1, "try_get", last.pre, 0)) \in {Err(e) : e \in ErrVal}
  /\ last.arg # last.pre

\* The composite's try_get(source) failed, then set(source, v) was invoked on
\* the same source
FailedReadThenSet ==
  /\ prev.op = "try_get" /\ ~prev.out.ok
  /\ last.op = "set" /\ last.pre = prev.pre

\* C2 as stated: with stages that satisfy the write contract only, set after a
\* failed composite read leaves the source unchanged.
C2_Original ==
  (FailedReadThenSet /\ WriteContract(1) /\ WriteContract(2))
    => last.post = last.pre

\* C2 amended: with stages that satisfy the write contract and a stage 1 that
\* satisfies get-set, set after a failed composite read (at stage 1, or at
\* stage 2 on the intermediate) leaves the source unchanged.
C2_AllOrNothing ==
  (FailedReadThenSet /\ WriteContract(1) /\ WriteContract(2) /\ GetSetLaw(1))
    => last.post = last.pre

\* stage 1 read the intermediate, stage 2 failed on it, and set wrote it back
C2_Witness ==
  /\ FailedReadThenSet /\ WriteContract(1) /\ WriteContract(2) /\ GetSetLaw(1)
  /\ Stage1Read.ok
  /\ Len(last.log) = 3

\* C3: try_get of the composed FallibleIso reads stage 1 then stage 2; a stage-1
\* failure e1 yields Err(getter_error_fn_1(e1)) without evaluating stage 2, a
\* stage-2 failure e2 yields Err(getter_error_fn_2(e2)), success yields stage
\* 2's read; one getter mapping is applied on failure, no reverse mapping ever,
\* and the source is not modified.
C3_TryGetLeftToRight ==
  last.op = "try_get" =>
    LET k1 == Key(1, "try_get", last.pre, 0)
        r1 == Read(k1)
        f1 == Key(0, "getter_error_fn_1", r1.val, 0)
        k2 == Key(2, "try_get", r1.val, 0)
        r2 == Read(k2)
        f2 == Key(0, "getter_error_fn_2", r2.val, 0)
    IN /\ last.post = last.pre
       /\ IF ~r1.ok
            THEN last.log = <<k1, f1>> /\ Read(f1).ok /\ last.out = Err(Read(f1).val)
            ELSE IF ~r2.ok
              THEN /\ last.log = <<k1, k2, f2>>
                   /\ Read(f2).ok /\ last.out = Err(Read(f2).val)
              ELSE last.log = <<k1, k2>> /\ last.out = r2

\* stage 1 succeeded, stage 2 failed on an intermediate other than the source,
\* and getter_error_fn_2 changed the error
C3_Witness ==
  /\ last.op = "try_get"
  /\ Stage1Read.ok
  /\ Stage1Read.val # last.pre
  /\ ~last.out.ok
  /\ last.out.val # Read(Key(2, "try_get", Stage1Read.val, 0)).val

\* C4: try_reverse_get of the composed FallibleIso runs stage 2 then stage 1; a
\* stage-2 failure e2 yields Err(reverse_error_fn_2(e2)) without evaluating
\* stage 1, a stage-1 failure e1 yields Err(reverse_error_fn_1(e1)), success
\* yields the source stage 1 built from the intermediate.
C4_TryReverseGetRightToLeft ==
  last.op = "try_reverse_get" =>
    LET k2 == Key(2, "try_reverse_get", last.arg, 0)
        r2 == Read(k2)
        f2 == Key(0, "reverse_error_fn_2", r2.val, 0)
        k1 == Key(1, "try_reverse_get", r2.val, 0)
        r1 == Read(k1)
        f1 == Key(0, "reverse_error_fn_1", r1.val, 0)
    IN IF ~r2.ok
         THEN last.log = <<k2, f2>> /\ Read(f2).ok /\ last.out = Err(Read(f2).val)
         ELSE IF ~r1.ok
           THEN /\ last.log = <<k2, k1, f1>>
                /\ Read(f1).ok /\ last.out = Err(Read(f1).val)
           ELSE last.log = <<k2, k1>> /\ last.out = r1

\* stage 2 built an intermediate other than the value, and stage 1 failed on it
C4_Witness ==
  /\ last.op = "try_reverse_get"
  /\ Len(last.log) = 3
  /\ last.log[2][3] # last.arg
  /\ ~last.out.ok

\* try_reverse_get(a) built s, then try_get was invoked on s
BuiltThenRead ==
  /\ prev.op = "try_reverse_get" /\ prev.out.ok
  /\ last.op = "try_get" /\ last.pre = prev.out.val

\* C5: when both stages satisfy the round-trip law and the composite's
\* try_reverse_get(a) builds s, the composite's try_get(s) returns Ok(a).
C5_RoundTrip ==
  (BuiltThenRead /\ RoundTripLaw(1) /\ RoundTripLaw(2))
    => last.out = Ok(prev.arg)

\* the intermediate and the source built differ from the value
C5_Witness ==
  /\ BuiltThenRead /\ RoundTripLaw(1) /\ RoundTripLaw(2)
  /\ prev.log[2][3] # prev.arg
  /\ last.pre # prev.log[2][3]

\* C6: when both stages satisfy set-get, a read of the composed Lens after
\* set(s, v) returns v and does not fail.
C6_SetGet ==
  (prev.op = "set" /\ last.op = "try_get" /\ last.pre = prev.post
     /\ SetGetLaw(1) /\ SetGetLaw(2))
    => last.out = Ok(prev.arg)

\* set changed the source, and the value is read back from the new source
C6_Witness ==
  /\ prev.op = "set" /\ last.op = "try_get" /\ last.pre = prev.post
  /\ SetGetLaw(1) /\ SetGetLaw(2)
  /\ prev.post # prev.pre
  /\ prev.arg # prev.post

\* C7: when both stages satisfy get-set, set(s, get(s)) of the composed Lens
\* leaves s as it was.
C7_GetSet ==
  (prev.op = "try_get" /\ prev.out.ok /\ last.op = "set"
     /\ last.pre = prev.pre /\ last.arg = prev.out.val
     /\ GetSetLaw(1) /\ GetSetLaw(2))
    => last.post = last.pre

\* the value read differs from the source and from the intermediate
C7_Witness ==
  /\ prev.op = "try_get" /\ prev.out.ok /\ last.op = "set"
  /\ last.pre = prev.pre /\ last.arg = prev.out.val
  /\ GetSetLaw(1) /\ GetSetLaw(2)
  /\ Len(last.log) = 3
  /\ last.arg # last.pre
  /\ last.log[2][3] # last.arg

\* The left-nested then the right-nested composite, same operation and inputs
BothWays ==
  /\ prev.side = 1 /\ last.side = 2
  /\ last.op = prev.op /\ last.pre = prev.pre /\ last.arg = prev.arg

\* C8 as stated: (o1.o2).o3 and o1.(o2.o3) give the same try_get result and
\* leave the source in the same state after set, for any three optics.
C8_Original ==
  BothWays => (last.out = prev.out /\ last.post = prev.post)

\* C8 amended: the two composites give the same try_get result for any three
\* optics, and leave the source in the same state after set when o1 satisfies
\* get-set.
C8_Associative ==
  BothWays => /\ last.out = prev.out
              /\ GetSetLaw(1) => last.post = prev.post

\* o1's read succeeded, o2's failed: the left composite left the source alone,
\* the right one wrote the intermediate back through o1
C8_Witness ==
  /\ BothWays /\ last.op = "set" /\ GetSetLaw(1)
  /\ Stage1Read.ok
  /\ ~Read(Key(2, "try_get", Stage1Read.val, 0)).ok
  /\ \E k \in Calls(last.log) : k[1] = 1 /\ k[2] = "set"
  /\ \A k \in Calls(prev.log) : k[2] # "set"

\* The capabilities of each kind
Caps(kind) ==
  CASE kind = "Getter" -> {"fallible-read", "total-read"}
    [] kind = "PartialGetter" -> {"fallible-read"}
    [] kind = "Lens" -> {"fallible-read", "total-read", "write"}
    [] kind = "Prism" ->
         {"fallible-read", "write", "fallible-reverse", "infallible-reverse"}
    [] kind = "Iso" ->
         {"fallible-read", "total-read", "write", "fallible-reverse",
          "infallible-reverse"}
    [] kind = "FallibleIso" -> {"fallible-read", "write", "fallible-reverse"}

\* The kind a wrapper declares
KindOf(o) ==
  CASE o.kind = "GetterImpl" -> "Getter"
    [] o.kind = "PartialGetterImpl" -> "PartialGetter"
    [] o.kind = "LensImpl" -> "Lens"
    [] o.kind = "PrismImpl" -> "Prism"
    [] o.kind = "IsoImpl" -> "Iso"
    [] o.kind = "FallibleIsoImpl" -> "FallibleIso"

\* C9: a GetterImpl composed with a Getter, Lens or Iso is a Getter, composed
\* with a Prism or FallibleIso a PartialGetter; the result's capabilities are
\* the intersection of the operands', never more than either has.
C9_GetterDowngrade ==
  built.op # "new" =>
    /\ KindOf(optic) = IF built.kind \in {"Getter", "Lens", "Iso"}
                         THEN "Getter" ELSE "PartialGetter"
    /\ Caps(KindOf(optic)) = Caps("Getter") \cap Caps(built.kind)
    /\ Caps(KindOf(optic)) \subseteq Caps("Getter")
    /\ Caps(KindOf(optic)) \subseteq Caps(built.kind)

C9_Witness == built.op = "compose_with_prism" /\ KindOf(optic) = "PartialGetter"

\* C10: try_get(s) of a GetterImpl composed with a Prism or FallibleIso is
\* stage 2's try_get of stage 1's get(s): stage 1 never fails, a stage-2
\* success is returned as is and a stage-2 failure e as Err(e).
C10_PartialGetterRead ==
  (built.op \in {"compose_with_prism", "compose_with_fallible_iso"}
     /\ last.op = "try_get" /\ last.side = 1)
    => LET k1 == Key(1, "try_get", last.pre, 0)
           k2 == Key(2, "try_get", Read(k1).val, 0)
       IN /\ Read(k1).ok
          /\ last.out = Read(k2)
          /\ last.log = IF last.out.ok
                          THEN <<k1, k2>>
                          ELSE <<k1, k2, Key(0, "identity", last.out.val, 0)>>

\* stage 2 failed on what stage 1 read
C10_Witness ==
  /\ built.op = "compose_with_prism"
  /\ last.op = "try_get" /\ last.side = 1
  /\ ~last.out.ok
  /\ last.log[2][3] # last.pre

====
